---- MODULE Spec2Model ----
(***************************************************************************)
(* Transaction application pipeline of the banking ledger:                 *)
(*   client -> Intake (HTTP handlers) -> queue -> Worker (Consumer.Start)  *)
(*          -> PGRepo (accounts, processed_messages) -> MongoRepo (ledger) *)
(*          -> ack / nack.                                                 *)
(* Every worker is one Consumer.Start loop; its position in the loop body  *)
(* is pc[w].  A PostgreSQL transaction runs at READ COMMITTED (the default *)
(* of pgx.TxOptions{}): a statement sees what is committed when it runs,   *)
(* SELECT ... FOR UPDATE waits for the row lock, and the lock is held      *)
(* until commit or rollback.                                               *)
(***************************************************************************)
EXTENDS Integers, Sequences, FiniteSets, TLC

\* ---- bounds of the model ------------------------------------------------
MaxMsgs == 2        \* messages the intake publishes in one behaviour
MaxFaults == 1      \* injected store / transport failures in one behaviour
IntBits == 8        \* bits int64 is scaled down to, to bring its limits in reach

\* ---- value sets the inputs are drawn from -------------------------------
Workers == {"w1", "w2"}
AccountIds == <<"a1", "a2">>        \* ids uuid.New() hands out, in order
Ghost == "g"                        \* a well-formed id no account has
Malformed == "bad"                  \* a string uuid.Parse rejects
Keys == {"k1", "k2"}                \* keys the clients choose
GenKeys == <<"u1", "u2", "u3">>     \* keys uuid.NewString() hands out, in order
Types == {"deposit", "withdraw", "bonus"}
Amounts == {-1, 1}
InitialBalances == {0, 1}
NoWorker == "none"

Range(s) == {s[i] : i \in DOMAIN s}
AllAccountIds == Range(AccountIds)
AllKeys == Keys \cup Range(GenKeys)

VARIABLES
    accounts,            \* table accounts: id -> balance
    processed_messages,  \* table processed_messages: sequence of rows
    entries,             \* Mongo collection ledger.entries: sequence of docs
    msgs,                \* payloads published on tx-queue, by publish order
    status,              \* per message: "ready" | "inflight" | "acked" | "dead"
    pc,                  \* per worker: position in the Consumer.Start body
    cur,                 \* per worker: the delivery d it holds (0 = none)
    lock,                \* per account row: the worker whose tx holds it
    rbal,                \* per worker: <<bal, _>> or <<fromAfter, toAfter>>
    faults,              \* failures injected so far
    initial,             \* history: the balance each account was created with
    orig,                \* history: per key, the payload whose apply committed
                         \* first and the balances that apply returned
    hist,                \* history: what the current delivery has been through
    accepted,            \* history: per published message, the keys its request
                         \* carried and the key of the 202 response
    proc,                \* per worker process: "running" | "stopping" (main is
                         \* past <-stop, in its 2s sleep) | "exited"
    ctx,                 \* per worker: the context given to Consumer.Start,
                         \* "live" | "cancelled"
    deliveries,          \* per worker: the channel Consume returned,
                         \* "open" | "closed"
    cancelledAt          \* history: per worker, the delivery in hand when its
                         \* context was cancelled (0: none)

vars == <<accounts, processed_messages, entries, msgs, status, pc, cur, lock,
          rbal, faults, initial, orig, hist, accepted, proc, ctx, deliveries,
          cancelledAt>>

\* ---- pure helpers -------------------------------------------------------

\* uuid.Parse(s): succeeds on a well-formed id only
ParseUUID(s) == s \in AllAccountIds \cup {Ghost}

\* variant: the probe of processed_messages never finds a row
KeyNeverFound(key) == FALSE

\* the limits of the (scaled) int64 of balances and amounts
MaxInt64 == 2^(IntBits - 1) - 1
MinInt64 == -(2^(IntBits - 1))

\* the result of Go's int64 arithmetic: the exact value x wrapped around
Int64(x) == ((x - MinInt64) % 2^IntBits) + MinInt64

\* SELECT idempotency_key FROM processed_messages WHERE idempotency_key=$1
KeyProcessed(key) ==
    \E i \in DOMAIN processed_messages : processed_messages[i].idempotency_key = key

\* the id uuid.New() returns: one no account has yet
NewUUID == AccountIds[Cardinality(DOMAIN accounts) + 1]

\* the row locks a worker's transaction holds are released by commit/rollback
Released(w) == [a \in AllAccountIds |-> IF lock[a] = w THEN NoWorker ELSE lock[a]]

\* json payload as both TxMessage and TransferMessage decode it; a field the
\* payload does not carry decodes to ""
TxPayload(acc, typ, amt, key) ==
    [account_id |-> acc, type |-> typ, amount |-> amt, idempotency_key |-> key,
     from_account_id |-> "", to_account_id |-> ""]

TransferPayload(from, to, amt, key) ==
    [account_id |-> "", type |-> "", amount |-> amt, idempotency_key |-> key,
     from_account_id |-> from, to_account_id |-> to]

\* Consumer.Start: single-account shape first, then transfer, else unknown
Classify(m) ==
    IF m.account_id # "" THEN "apply"
    ELSE IF m.from_account_id # "" /\ m.to_account_id # "" THEN "applyT"
    ELSE "unknown"

M(w) == msgs[cur[w]]


stores == <<accounts, processed_messages, entries>>
consumer == <<ctx, deliveries, cancelledAt>>
history == <<initial, orig, accepted>>

\* ---- construction -------------------------------------------------------
Init ==
    /\ accounts = <<>>
    /\ processed_messages = <<>>
    /\ entries = <<>>
    /\ msgs = <<>>
    /\ status = <<>>
    /\ pc = [w \in Workers |-> "idle"]
    /\ cur = [w \in Workers |-> 0]
    /\ lock = [a \in AllAccountIds |-> NoWorker]
    /\ rbal = [w \in Workers |-> <<0, 0>>]
    /\ faults = 0
    /\ initial = <<>>
    /\ orig = [k \in AllKeys |-> <<>>]
    /\ hist = [w \in Workers |-> <<>>]
    /\ accepted = <<>>
    /\ proc = [w \in Workers |-> "running"]
    /\ ctx = [w \in Workers |-> "live"]
    /\ deliveries = [w \in Workers |-> "open"]
    /\ cancelledAt = [w \in Workers |-> 0]

\* ---- Intake: internal/http/handlers/handlers.go -------------------------

\* createAccount -> PGRepo.CreateAccount: no validation of the body
CreateAccount(initialBalance) ==
    /\ Cardinality(DOMAIN accounts) < Len(AccountIds)
    /\ LET id == NewUUID IN
        /\ accounts' = [a \in DOMAIN accounts \cup {id} |->
                           IF a = id THEN initialBalance ELSE accounts[a]]
        /\ initial' = [a \in DOMAIN initial \cup {id} |->
                           IF a = id THEN initialBalance ELSE initial[a]]
    /\ UNCHANGED <<processed_messages, entries, msgs, status, pc, cur, lock,
                   rbal, faults, orig, hist, accepted, proc, consumer>>

\* variant: the intake also records the key of the message as processed
PublishAndRecord(payload) ==
    /\ Len(msgs) < MaxMsgs
    /\ msgs' = Append(msgs, payload)
    /\ status' = Append(status, "ready")
    /\ processed_messages' = Append(processed_messages,
           [idempotency_key |-> payload.idempotency_key, account_id |-> "",
            type |-> "", amount |-> 0])
    /\ UNCHANGED <<accounts, entries, pc, cur, lock, rbal, faults, initial, orig,
                   hist, proc, consumer>>

\* Publisher.Publish / PublishTransfer: one persistent message on tx-queue
Publish(payload) ==
    /\ Len(msgs) < MaxMsgs
    /\ msgs' = Append(msgs, payload)
    /\ status' = Append(status, "ready")
    /\ UNCHANGED <<stores, pc, cur, lock, rbal, faults, initial, orig, hist, proc, consumer>>

\* the account ids a client can name: ids CreateAccount returned, an id of
\* no account, a malformed string
AccountRefs == DOMAIN accounts \cup {Ghost, Malformed}

\* uuid.NewString(): a key no message carries yet
NewString == GenKeys[Len(msgs) + 1]

\* variant: the Idempotency-Key header is looked at before the body field
ResolveKeyHeaderFirst(bodyKey, headerKey) ==
    IF headerKey # "" THEN headerKey
    ELSE IF bodyKey # "" THEN bodyKey
    ELSE NewString

\* key := body.IdempotencyKey; if empty the Idempotency-Key header; if empty
\* a generated one
ResolveKey(bodyKey, headerKey) ==
    IF bodyKey # "" THEN bodyKey
    ELSE IF headerKey # "" THEN headerKey
    ELSE NewString

\* WriteHeader(202) and the body {"status": "queued", "idempotency_key": key}
Accept(bodyKey, headerKey, key) ==
    accepted' = Append(accepted, [body |-> bodyKey, header |-> headerKey,
                                  idempotency_key |-> key])

\* enqueueTx: decodes the body and publishes it; no check of type or amount
EnqueueTx(acc, typ, amt, bodyKey, headerKey) ==
    LET key == ResolveKey(bodyKey, headerKey) IN
    /\ Publish(TxPayload(acc, typ, amt, key))
    /\ Accept(bodyKey, headerKey, key)

\* enqueueTransfer: decodes the body and publishes it; no check of from # to
EnqueueTransfer(from, to, amt, bodyKey, headerKey) ==
    LET key == ResolveKey(bodyKey, headerKey) IN
    /\ Publish(TransferPayload(from, to, amt, key))
    /\ Accept(bodyKey, headerKey, key)

\* ---- Worker: Consumer.Start ---------------------------------------------

\* `continue`: the worker is back at the select of the loop
LoopBack(w) ==
    /\ pc' = [pc EXCEPT ![w] = "idle"]
    /\ cur' = [cur EXCEPT ![w] = 0]
    /\ rbal' = [rbal EXCEPT ![w] = <<0, 0>>]
    /\ hist' = [hist EXCEPT ![w] = <<>>]

\* variant: the worker goes back to the loop without answering the delivery
NackNone(w, requeue) ==
    /\ UNCHANGED status
    /\ LoopBack(w)

\* d.Nack(false, requeue)
Nack(w, requeue) ==
    /\ status' = [status EXCEPT ![cur[w]] = IF requeue THEN "ready" ELSE "dead"]
    /\ LoopBack(w)

\* the requeue flag of the Nack after a failed Apply / ApplyTransfer
ApplyErrRequeue == TRUE
\* variant: the Nack after a failed ledger write drops the message
LedgerErrDrop == FALSE

\* the requeue flag of the Nack after a failed Write / WriteTransfer
LedgerErrRequeue == TRUE
\* variant: an unknown payload is put back in the queue
UnknownRequeueTrue == TRUE
\* the requeue flag of the Nack of an unknown payload
UnknownRequeue == FALSE

\* variant: the statements run outside a transaction, the row of the key is
\* inserted before the error is found and no rollback removes it
ApplyFailedDirty(w) ==
    /\ lock' = Released(w)
    /\ Nack(w, ApplyErrRequeue)
    /\ processed_messages' = Append(processed_messages,
           [idempotency_key |-> M(w).idempotency_key, account_id |-> "",
            type |-> "", amount |-> 0])
    /\ UNCHANGED <<accounts, entries, msgs, faults, history, proc, consumer>>

\* variant: the consumer writes the ledger before it looks at the error
ApplyFailedThenLedger(w) ==
    /\ lock' = Released(w)
    /\ Nack(w, ApplyErrRequeue)
    /\ entries' = Append(entries,
           [account_id |-> M(w).account_id, type |-> M(w).type,
            amount |-> M(w).amount, balance_after |-> 0,
            idempotency_key |-> M(w).idempotency_key])
    /\ UNCHANGED <<accounts, processed_messages, msgs, faults, history, proc, consumer>>

\* Apply / ApplyTransfer returned an error: the deferred tx.Rollback drops
\* the transaction's writes and locks, the consumer nacks
ApplyFailed(w) ==
    /\ lock' = Released(w)
    /\ Nack(w, ApplyErrRequeue)
    /\ UNCHANGED <<stores, msgs, faults, history, proc, consumer>>

\* case d := <-deliveries, json.Unmarshal and the shape tests
Deliver(w, id) ==
    /\ proc[w] # "exited"
    /\ deliveries[w] = "open"
    /\ pc[w] = "idle"
    /\ id \in DOMAIN msgs
    /\ status[id] = "ready"
    /\ status' = [status EXCEPT ![id] = "inflight"]
    /\ cur' = [cur EXCEPT ![w] = id]
    /\ pc' = [pc EXCEPT ![w] = Classify(msgs[id])]
    /\ UNCHANGED <<stores, msgs, lock, rbal, faults, history, hist, proc, consumer>>

\* // Unknown payload
RejectUnknown(w) ==
    /\ pc[w] = "unknown"
    /\ Nack(w, UnknownRequeue)
    /\ UNCHANGED <<stores, msgs, lock, faults, history, proc, consumer>>

\* d.Ack(false)
Ack(w) ==
    /\ pc[w] = "ack"
    /\ status' = [status EXCEPT ![cur[w]] = "acked"]
    /\ LoopBack(w)
    /\ UNCHANGED <<stores, msgs, lock, faults, history, proc, consumer>>


\* variant: the consumer acks right after the apply, without the ledger write
ApplyReturnedToAck(w, b, next) ==
    /\ rbal' = [rbal EXCEPT ![w] = b]
    /\ pc' = [pc EXCEPT ![w] = "ack"]
    /\ hist' = [hist EXCEPT ![w] = Append(@, "apply_ok")]

\* Apply / ApplyTransfer returned nil error with the balance(s) b
ApplyReturned(w, b, next) ==
    /\ rbal' = [rbal EXCEPT ![w] = b]
    /\ pc' = [pc EXCEPT ![w] = next]
    /\ hist' = [hist EXCEPT ![w] = Append(@, "apply_ok")]

\* ---- Balance store: PGRepo.ApplyTransaction -----------------------------

\* variant: a withdrawal must leave a positive balance
TxnErrorStrict(typ, balance, amount) ==
    CASE typ = "deposit" -> "ok"
      [] typ = "withdraw" -> IF balance <= amount THEN "insufficient_funds" ELSE "ok"
      [] OTHER -> "invalid_type"

\* the switch on typ: the error it returns, "ok" when none
TxnError(typ, balance, amount) ==
    CASE typ = "deposit" -> "ok"
      [] typ = "withdraw" -> IF balance < amount THEN "insufficient_funds" ELSE "ok"
      [] OTHER -> "invalid_type"

\* variant: the UPDATE of the balance is left out of the transaction
NewBalanceUnchanged(typ, balance, amount) == balance

\* the switch on typ: the new balance
NewBalance(typ, balance, amount) ==
    IF typ = "deposit" THEN Int64(balance + amount) ELSE Int64(balance - amount)

\* variant: processed_messages without the PRIMARY KEY on idempotency_key
NoUniqueViolation(key) == FALSE

\* INSERT INTO processed_messages: idempotency_key is the PRIMARY KEY
UniqueViolation(key) == KeyProcessed(key)

ProcessedRow(key, acc, typ, amt) ==
    [idempotency_key |-> key, account_id |-> acc, type |-> typ, amount |-> amt]

\* history of the commit of payload m that returned the balances b
Committed(m, b) ==
    /\ orig' = [orig EXCEPT ![m.idempotency_key] =
                   IF @ = <<>> THEN <<m, b>> ELSE @]
    /\ UNCHANGED <<initial, accepted, proc, consumer>>

\* workerApplier.Apply: uuid.Parse; ApplyTransaction: BeginTx, the
\* idempotency probe and, when the key is there, the replay path
ApplyBegin(w) ==
    /\ pc[w] = "apply"
    /\ LET m == M(w) IN
       IF ~ParseUUID(m.account_id) THEN ApplyFailed(w)
       ELSE IF KeyProcessed(m.idempotency_key)
       THEN IF m.account_id \in DOMAIN accounts
            THEN /\ ApplyReturned(w, <<accounts[m.account_id], 0>>, "ledger")
                 /\ UNCHANGED <<stores, msgs, status, cur, lock, faults, history, proc, consumer>>
            ELSE ApplyFailed(w)
       ELSE /\ pc' = [pc EXCEPT ![w] = "lock"]
            /\ UNCHANGED <<stores, msgs, status, cur, lock, rbal, faults, history, hist, proc, consumer>>

\* variant: the balance is read without FOR UPDATE, no row lock is taken
ReadRowNoLock(w) ==
    /\ pc[w] = "lock"
    /\ LET a == M(w).account_id IN
       IF a \notin DOMAIN accounts THEN ApplyFailed(w)
       ELSE /\ rbal' = [rbal EXCEPT ![w] = <<accounts[a], 0>>]
            /\ pc' = [pc EXCEPT ![w] = "update"]
            /\ UNCHANGED <<stores, msgs, status, cur, lock, faults, history, hist, proc, consumer>>

\* SELECT balance FROM accounts WHERE id=$1 FOR UPDATE: no row is an error,
\* a row locked by another transaction makes the statement wait
LockRow(w) ==
    /\ pc[w] = "lock"
    /\ LET a == M(w).account_id IN
       IF a \notin DOMAIN accounts THEN ApplyFailed(w)
       ELSE /\ lock[a] = NoWorker
            /\ lock' = [lock EXCEPT ![a] = w]
            /\ rbal' = [rbal EXCEPT ![w] = <<accounts[a], 0>>]
            /\ pc' = [pc EXCEPT ![w] = "update"]
            /\ UNCHANGED <<stores, msgs, status, cur, faults, history, hist, proc, consumer>>

\* the switch, UPDATE accounts, INSERT INTO processed_messages, Commit
ApplyCommit(w) ==
    /\ pc[w] = "update"
    /\ LET m == M(w)
           balance == rbal[w][1]
           nb == NewBalance(m.type, balance, m.amount)
       IN
       IF TxnError(m.type, balance, m.amount) # "ok" THEN ApplyFailed(w)
       ELSE IF UniqueViolation(m.idempotency_key) THEN ApplyFailed(w)
       ELSE /\ accounts' = [accounts EXCEPT ![m.account_id] = nb]
            /\ processed_messages' = Append(processed_messages,
                   ProcessedRow(m.idempotency_key, m.account_id, m.type, m.amount))
            /\ lock' = Released(w)
            /\ ApplyReturned(w, <<nb, 0>>, "ledger")
            /\ Committed(m, <<nb, 0>>)
            /\ UNCHANGED <<entries, msgs, status, cur, faults>>

\* ---- Balance store: PGRepo.ApplyTransfer --------------------------------

\* workerApplier.ApplyTransfer: uuid.Parse of both ids; ApplyTransfer:
\* BeginTx, the probe and, when the key is there, the read of from's balance
TransferBegin(w) ==
    /\ pc[w] = "applyT"
    /\ LET m == M(w) IN
       IF ~ParseUUID(m.from_account_id) \/ ~ParseUUID(m.to_account_id)
       THEN ApplyFailed(w)
       ELSE IF KeyProcessed(m.idempotency_key)
       THEN IF m.from_account_id \in DOMAIN accounts
            THEN /\ rbal' = [rbal EXCEPT ![w] = <<accounts[m.from_account_id], 0>>]
                 /\ pc' = [pc EXCEPT ![w] = "replayTo"]
                 /\ UNCHANGED <<stores, msgs, status, cur, lock, faults, history, hist, proc, consumer>>
            ELSE ApplyFailed(w)
       ELSE /\ pc' = [pc EXCEPT ![w] = "lockT"]
            /\ UNCHANGED <<stores, msgs, status, cur, lock, rbal, faults, history, hist, proc, consumer>>

\* replay path: the read of to's balance and the commit
ReplayReadTo(w) ==
    /\ pc[w] = "replayTo"
    /\ LET m == M(w) IN
       IF m.to_account_id \in DOMAIN accounts
       THEN /\ ApplyReturned(w, <<rbal[w][1], accounts[m.to_account_id]>>, "ledgerT")
            /\ UNCHANGED <<stores, msgs, status, cur, lock, faults, history, proc, consumer>>
       ELSE ApplyFailed(w)

\* the rows SELECT id, balance FROM accounts WHERE id IN ($1,$2) matches
TransferRows(m) == {m.from_account_id, m.to_account_id} \cap DOMAIN accounts

\* ... FOR UPDATE locks the matching rows one by one as the scan returns
\* them; the statement fixes no order among them.  rows.Scan fills balances
LockTransferRow(w, a) ==
    /\ pc[w] = "lockT"
    /\ a \in TransferRows(M(w))
    /\ lock[a] = NoWorker
    /\ lock' = [lock EXCEPT ![a] = w]
    /\ rbal' = [rbal EXCEPT ![w] =
                  <<IF a = M(w).from_account_id THEN accounts[a] ELSE @[1],
                    IF a = M(w).to_account_id THEN accounts[a] ELSE @[2]>>]
    /\ UNCHANGED <<stores, msgs, status, pc, cur, faults, history, hist, proc, consumer>>

\* UPDATE ... WHERE id=from, then UPDATE ... WHERE id=to: a statement that
\* matches no row changes nothing and is no error
UpdateBoth(from, fromBal, to, toBal) ==
    [a \in DOMAIN accounts |->
        IF a = to THEN toBal ELSE IF a = from THEN fromBal ELSE accounts[a]]

\* the funds test, both UPDATEs, INSERT INTO processed_messages, Commit
TransferCommit(w) ==
    /\ pc[w] = "lockT"
    /\ \A a \in TransferRows(M(w)) : lock[a] = w
    /\ LET m == M(w)
           fromBal == Int64(rbal[w][1] - m.amount)
           toBal == Int64(rbal[w][2] + m.amount)
       IN
       IF rbal[w][1] < m.amount THEN ApplyFailed(w)
       ELSE IF UniqueViolation(m.idempotency_key) THEN ApplyFailed(w)
       ELSE /\ accounts' = UpdateBoth(m.from_account_id, fromBal, m.to_account_id, toBal)
            /\ processed_messages' = Append(processed_messages,
                   ProcessedRow(m.idempotency_key, m.from_account_id, "transfer", m.amount))
            /\ lock' = Released(w)
            /\ ApplyReturned(w, <<fromBal, toBal>>, "ledgerT")
            /\ Committed(m, <<fromBal, toBal>>)
            /\ UNCHANGED <<entries, msgs, status, cur, faults>>


\* ---- Ledger store: MongoRepo --------------------------------------------

LedgerDoc(acc, typ, amt, after, key) ==
    [account_id |-> acc, type |-> typ, amount |-> amt, balance_after |-> after,
     idempotency_key |-> key]

\* InsertLedger: the document InsertOne stores; amount is stored as passed
InsertLedger(acc, typ, amt, after, key) ==
    <<LedgerDoc(acc, typ, amt, after, key)>>

\* variant: the debit document carries the amount unsigned
InsertTransferLedgerUnsigned(from, to, amt, fromAfter, toAfter, key) ==
    <<LedgerDoc(from, "transfer_debit", amt, fromAfter, key),
      LedgerDoc(to, "transfer_credit", amt, toAfter, key)>>

\* InsertTransferLedger: the two documents InsertMany stores, in order
InsertTransferLedger(from, to, amt, fromAfter, toAfter, key) ==
    <<LedgerDoc(from, "transfer_debit", -amt, fromAfter, key),
      LedgerDoc(to, "transfer_credit", amt, toAfter, key)>>

\* Write / WriteTransfer returned nil error
LedgerReturned(w) ==
    /\ pc' = [pc EXCEPT ![w] = "ack"]
    /\ hist' = [hist EXCEPT ![w] = Append(@, "ledger_ok")]
    /\ UNCHANGED <<accounts, processed_messages, msgs, status, cur, lock, rbal,
                   faults, history, proc, consumer>>

\* c.Ledger.Write -> workerLedgerWriter.Write -> InsertLedger
LedgerWrite(w) ==
    /\ pc[w] = "ledger"
    /\ LET m == M(w) IN
       entries' = entries \o InsertLedger(m.account_id, m.type, m.amount,
                                          rbal[w][1], m.idempotency_key)
    /\ LedgerReturned(w)

\* c.Ledger.WriteTransfer -> workerLedgerWriter.WriteTransfer -> InsertTransferLedger
LedgerWriteTransfer(w) ==
    /\ pc[w] = "ledgerT"
    /\ LET m == M(w) IN
       entries' = entries \o InsertTransferLedger(m.from_account_id, m.to_account_id,
                      m.amount, rbal[w][1], rbal[w][2], m.idempotency_key)
    /\ LedgerReturned(w)

\* ---- failures of the stores and of the worker ---------------------------

InTx(w) == pc[w] \in {"apply", "lock", "update", "applyT", "replayTo", "lockT"}

\* a statement or the commit of the balance-store transaction fails
\* (connection loss, deadlock abort): error return, rollback, nack
TxFail(w) ==
    /\ InTx(w)
    /\ faults < MaxFaults
    /\ faults' = faults + 1
    /\ lock' = Released(w)
    /\ Nack(w, ApplyErrRequeue)
    /\ UNCHANGED <<stores, msgs, history, proc, consumer>>

\* InsertOne / InsertMany fails and stores nothing (the batch of a transfer
\* is taken to succeed or fail as a unit)
LedgerFail(w) ==
    /\ pc[w] \in {"ledger", "ledgerT"}
    /\ faults < MaxFaults
    /\ faults' = faults + 1
    /\ Nack(w, LedgerErrRequeue)
    /\ UNCHANGED <<stores, msgs, lock, history, proc, consumer>>

\* the worker process stops with a delivery unanswered (cmd/worker main
\* exits 2s after the signal): the open transaction is rolled back, the
\* transport requeues the delivery, another process takes the place
WorkerStop(w) ==
    /\ pc[w] # "idle"
    /\ faults < MaxFaults
    /\ faults' = faults + 1
    /\ lock' = Released(w)
    /\ status' = [status EXCEPT ![cur[w]] = "ready"]
    /\ LoopBack(w)
    /\ UNCHANGED <<stores, msgs, history, proc, consumer>>

\* ---- shutdown: cmd/worker main ------------------------------------------

\* main receives SIGINT / SIGTERM on stop, logs and starts its 2s sleep; the
\* consumer goroutine runs on context.Background() and is told nothing
Signal(w) ==
    /\ proc[w] = "running"
    /\ proc' = [proc EXCEPT ![w] = "stopping"]
    /\ UNCHANGED <<stores, msgs, status, pc, cur, lock, rbal, faults, history, hist,
                   consumer>>

\* the sleep is over: main returns, the deferred Close calls run and the
\* process ends wherever the consumer goroutine is; an open transaction is
\* rolled back and the transport requeues a delivery left unanswered
Exit(w) ==
    /\ proc[w] = "stopping"
    /\ proc' = [proc EXCEPT ![w] = "exited"]
    /\ lock' = Released(w)
    /\ status' = IF cur[w] = 0 THEN status ELSE [status EXCEPT ![cur[w]] = "ready"]
    /\ LoopBack(w)
    /\ UNCHANGED <<stores, msgs, faults, history, consumer>>

\* ---- the context and the delivery channel of Consumer.Start --------------

\* the caller cancels the context it gave to Start
Cancel(w) ==
    /\ ctx[w] = "live"
    /\ pc[w] # "returned"
    /\ ctx' = [ctx EXCEPT ![w] = "cancelled"]
    /\ cancelledAt' = [cancelledAt EXCEPT ![w] = cur[w]]
    /\ UNCHANGED <<stores, msgs, status, pc, cur, lock, rbal, faults, history, hist,
                   proc, deliveries>>

\* variant: the loop returns as soon as the context is cancelled, wherever
\* the loop body is
ReturnAbandoning(w) ==
    /\ pc[w] # "returned"
    /\ ctx[w] = "cancelled"
    /\ pc' = [pc EXCEPT ![w] = "returned"]
    /\ UNCHANGED <<stores, msgs, status, cur, lock, rbal, faults, history, hist,
                   proc, consumer>>

\* case <-ctx.Done(): return ctx.Err(); the select is reached only between
\* two deliveries, and picks any of its ready cases
Return(w) ==
    /\ pc[w] = "idle"
    /\ ctx[w] = "cancelled"
    /\ pc' = [pc EXCEPT ![w] = "returned"]
    /\ UNCHANGED <<stores, msgs, status, cur, lock, rbal, faults, history, hist,
                   proc, consumer>>

\* a store call made with the cancelled context returns the context's
\* error: Apply / ApplyTransfer roll back, Write / WriteTransfer store
\* nothing, and the consumer nacks
CtxFail(w) ==
    /\ ctx[w] = "cancelled"
    /\ \/ /\ InTx(w)
          /\ ApplyFailed(w)
       \/ /\ pc[w] \in {"ledger", "ledgerT"}
          /\ Nack(w, LedgerErrRequeue)
          /\ UNCHANGED <<stores, msgs, lock, faults, history, proc, consumer>>

\* the transport closes the channel returned by Consume (connection or
\* channel shutdown), taken here between two deliveries
CloseChannel(w) ==
    /\ deliveries[w] = "open"
    /\ pc[w] = "idle"
    /\ deliveries' = [deliveries EXCEPT ![w] = "closed"]
    /\ UNCHANGED <<stores, msgs, status, pc, cur, lock, rbal, faults, history, hist,
                   proc, ctx, cancelledAt>>

\* case d := <-deliveries on the closed channel: the receive yields the zero
\* Delivery at once; both json.Unmarshal calls fail on its empty Body
ReceiveZero(w) ==
    /\ deliveries[w] = "closed"
    /\ pc[w] = "idle"
    /\ pc' = [pc EXCEPT ![w] = "zero"]
    /\ UNCHANGED <<stores, msgs, status, cur, lock, rbal, faults, history, hist,
                   proc, consumer>>

\* d.Nack(false, false) on the zero Delivery (its error is dropped), then
\* the next iteration of the loop
NackZero(w) ==
    /\ pc[w] = "zero"
    /\ pc' = [pc EXCEPT ![w] = "idle"]
    /\ UNCHANGED <<stores, msgs, status, cur, lock, rbal, faults, history, hist,
                   proc, consumer>>

\* ---- the system ---------------------------------------------------------

\* the requests the clients send: every operation against the first account,
\* a plain deposit against every other reference (and against no account);
\* the key comes in the body, a plain deposit may come without any key
TxRequests ==
    {r \in [account_id : AccountRefs \cup {""}, type : Types, amount : Amounts,
            idempotency_key : Keys \cup {""}, header : {""}] :
        /\ \/ r.account_id = AccountIds[1]
           \/ r.type = "deposit" /\ r.amount = 1
        /\ r.idempotency_key = "" =>
              /\ r.account_id = AccountIds[1]
              /\ r.type = "deposit" /\ r.amount = 1}

\* transfers out of the first account to every reference (and to none), into
\* it from every well-formed one; a negative amount between the two accounts
TransferRequests ==
    {r \in [from_account_id : AccountRefs, to_account_id : AccountRefs \cup {""},
            amount : Amounts, idempotency_key : Keys, header : {""}] :
        /\ \/ r.from_account_id = AccountIds[1]
           \/ r.to_account_id = AccountIds[1] /\ r.from_account_id # Malformed
        /\ \/ r.amount = 1
           \/ r.from_account_id = AccountIds[1] /\ r.to_account_id = AccountIds[2]}

Intake ==
    \/ \E b \in InitialBalances : CreateAccount(b)
    \/ \E r \in TxRequests :
          EnqueueTx(r.account_id, r.type, r.amount, r.idempotency_key, r.header)
    \/ \E r \in TransferRequests :
          EnqueueTransfer(r.from_account_id, r.to_account_id, r.amount,
                          r.idempotency_key, r.header)

Worker(w) ==
    \/ \E id \in 1..MaxMsgs : Deliver(w, id)
    \/ RejectUnknown(w)
    \/ ApplyBegin(w)
    \/ LockRow(w)
    \/ ApplyCommit(w)
    \/ TransferBegin(w)
    \/ ReplayReadTo(w)
    \/ \E a \in AllAccountIds : LockTransferRow(w, a)
    \/ TransferCommit(w)
    \/ LedgerWrite(w)
    \/ LedgerWriteTransfer(w)
    \/ Ack(w)

Fault(w) ==
    \/ TxFail(w)
    \/ LedgerFail(w)
    \/ WorkerStop(w)

Next ==
    \/ Intake
    \/ \E w \in Workers : Worker(w)
    \/ \E w \in Workers : Fault(w)

Spec == Init /\ [][Next]_vars


\* ---- vocabulary of the properties ----------------------------------------

IsSingle(m) == Classify(m) = "apply"
IsTransfer(m) == Classify(m) = "applyT"

\* the published messages that carry key
WithKey(key) == {id \in DOMAIN msgs : msgs[id].idempotency_key = key}

\* the ledger entries that carry key
EntriesOf(key) == {i \in DOMAIN entries : entries[i].idempotency_key = key}

\* the processed_messages rows that carry key
RowsOf(key) ==
    {i \in DOMAIN processed_messages : processed_messages[i].idempotency_key = key}

RECURSIVE SumOver(_, _)
\* sum of f over the finite set S of indices
SumOver(f, S) ==
    IF S = {} THEN 0
    ELSE LET i == CHOOSE x \in S : TRUE IN f[i] + SumOver(f, S \ {i})

\* the signed amount of a ledger entry by its kind: deposit +amount, withdraw
\* -amount; a transfer_debit is stored as -amount, a transfer_credit as +amount
SignedAmount(e) == IF e.type = "withdraw" THEN -e.amount ELSE e.amount

\* sum of the signed amounts of the ledger entries of account a
LedgerSum(a) ==
    SumOver([i \in DOMAIN entries |-> SignedAmount(entries[i])],
            {i \in DOMAIN entries : entries[i].account_id = a})

\* no delivery is being processed, and every message whose key has been
\* applied to the balance store has been acked
Quiescent ==
    /\ \A w \in Workers : pc[w] = "idle"
    /\ \A id \in DOMAIN msgs :
          KeyProcessed(msgs[id].idempotency_key) => status[id] = "acked"

\* ---- C1 -------------------------------------------------------------------
\* C1: after any sequence of accepted CreateAccount, EnqueueTx and
\* EnqueueTransfer requests processed by the workers, every account's
\* committed balance is >= 0.
C1_BalanceNonNegative ==
    \A a \in DOMAIN accounts : accounts[a] >= 0

\* ---- C3 -------------------------------------------------------------------
\* C3: once every delivery of one single-account message submitted N >= 1
\* times has been acked, the ledger holds exactly one entry for its key.
C3_OneEntryPerKey ==
    \A key \in AllKeys :
        ( /\ WithKey(key) # {}
          /\ \A id \in WithKey(key) :
                /\ IsSingle(msgs[id])
                /\ status[id] = "acked"
                /\ \A id2 \in WithKey(key) : msgs[id2] = msgs[id] )
        => Cardinality(EntriesOf(key)) = 1

\* ---- C4 -------------------------------------------------------------------
\* C4: whenever no message is between its balance-store commit and its ack,
\* every account's balance is its initial balance plus the sum of the signed
\* amounts of its ledger entries.
C4_BalanceIsLedgerSum ==
    Quiescent =>
        \A a \in DOMAIN accounts : accounts[a] = initial[a] + LedgerSum(a)

\* ---- C5 -------------------------------------------------------------------
\* the entries of key are one transfer_debit on from and one transfer_credit
\* on to of equal absolute amount
PairedEntries(key) ==
    \E i, j \in EntriesOf(key) :
        /\ i # j
        /\ EntriesOf(key) = {i, j}
        /\ entries[i].type = "transfer_debit"
        /\ entries[j].type = "transfer_credit"
        /\ entries[i].amount = -entries[j].amount
        /\ \E id \in WithKey(key) :
              /\ entries[i].account_id = msgs[id].from_account_id
              /\ entries[j].account_id = msgs[id].to_account_id

\* C5: for every key of a transfer the ledger holds zero or exactly two
\* entries, a transfer_debit on the source and a transfer_credit on the
\* destination of equal absolute amount, in every reachable state.
C5_TransferEntriesPaired ==
    \A key \in AllKeys :
        ( /\ WithKey(key) # {}
          /\ \A id \in WithKey(key) :
                /\ IsTransfer(msgs[id])
                /\ \A id2 \in WithKey(key) : msgs[id2] = msgs[id] )
        => (EntriesOf(key) = {} \/ PairedEntries(key))


\* ---- C2 -------------------------------------------------------------------
BalancesChanged ==
    \E a \in DOMAIN accounts : accounts'[a] # accounts[a]

\* C2: for every idempotency key at most one processed-key row ever exists,
\* and a step changes account balances only together with the insertion of
\* the first row of a key (so balances move at most once per key, and a worker
\* whose insert loses the race on the key commits no balance update).
C2_AtMostOneEffect ==
    [][ /\ \A key \in AllKeys : Cardinality(RowsOf(key))' <= 1
        /\ BalancesChanged =>
              \E key \in AllKeys : RowsOf(key) = {} /\ RowsOf(key)' # {} ]_vars

\* two workers took deliveries with one key past the probe; one has committed
\* and the other, holding its row lock, is at the insert it will lose
C2_Witness ==
    \E w \in Workers :
        /\ pc[w] \in {"update", "lockT"}
        /\ KeyProcessed(M(w).idempotency_key)

\* ---- C6 -------------------------------------------------------------------
\* the apply the worker is about to run returns a permanent error
PermanentError(w) ==
    \/ pc[w] = "apply" /\ ~ParseUUID(M(w).account_id)
    \/ pc[w] = "applyT" /\ (~ParseUUID(M(w).from_account_id)
                            \/ ~ParseUUID(M(w).to_account_id))
    \/ pc[w] = "update" /\ TxnError(M(w).type, rbal[w][1], M(w).amount) # "ok"
    \/ /\ pc[w] = "lockT"
       /\ \A a \in TransferRows(M(w)) : lock[a] = w
       /\ rbal[w][1] < M(w).amount

\* C6: when the apply of a delivery fails with a permanent error
\* (insufficient_funds, invalid_type, a malformed account id) the worker nacks
\* it without requeue: the message is dead-lettered, not redelivered.
C6_PermanentErrorDeadLetters ==
    [][ \A w \in Workers :
          (PermanentError(w) /\ cur'[w] = 0 /\ faults' = faults)
             => status'[cur[w]] = "dead" ]_vars

\* ---- C7 -------------------------------------------------------------------
\* C7: when the apply fails with a transient store error, or the apply
\* succeeded and the ledger write fails, the delivery is nacked with requeue
\* (it is back in the queue) and is not acked.
C7_TransientErrorRequeues ==
    [][ \A w \in Workers :
          ( /\ InTx(w) \/ pc[w] \in {"ledger", "ledgerT"}
            /\ faults' = faults + 1
            /\ cur'[w] = 0 )
             => status'[cur[w]] = "ready" ]_vars

\* a message whose balance change is committed, whose ledger write failed and
\* which is back in the queue
C7_Witness ==
    \E id \in DOMAIN msgs :
        /\ status[id] = "ready"
        /\ faults > 0
        /\ orig[msgs[id].idempotency_key] # <<>>
        /\ orig[msgs[id].idempotency_key][1] = msgs[id]
        /\ EntriesOf(msgs[id].idempotency_key) = {}

\* ---- C9 -------------------------------------------------------------------
\* C9: on the replay path ApplyTransaction and ApplyTransfer return the
\* balance_after value(s) the original application of that message returned
\* (stated for the deliveries of the payload that was applied; a transfer
\* from an account to itself is left aside).
C9_ReplayReturnsOriginal ==
    \A w \in Workers :
        ( /\ pc[w] \in {"ledger", "ledgerT"}
          /\ orig[M(w).idempotency_key] # <<>>
          /\ orig[M(w).idempotency_key][1] = M(w)
          /\ M(w).from_account_id = "" \/ M(w).from_account_id # M(w).to_account_id )
        => rbal[w] = orig[M(w).idempotency_key][2]

\* ---- C10 ------------------------------------------------------------------
\* C10: a delivery is acked only after its apply returned success (the row of
\* its key is committed) and then its ledger write returned success; a ledger
\* write is attempted only by a worker whose apply has returned success, with
\* the row of the key committed.
C10_AckAfterApplyThenLedger ==
    [][ /\ \A id \in DOMAIN msgs :
              (status[id] # "acked" /\ status'[id] = "acked") =>
                  \E w \in Workers :
                      /\ cur[w] = id
                      /\ hist[w] = <<"apply_ok", "ledger_ok">>
                      /\ KeyProcessed(msgs[id].idempotency_key)
                      /\ EntriesOf(msgs[id].idempotency_key) # {}
        /\ \A w \in Workers :
              ( \/ pc[w] \in {"ledger", "ledgerT"} /\ pc'[w] # pc[w]
                \/ entries' # entries /\ hist'[w] # hist[w] )
              => /\ hist[w] = <<"apply_ok">>
                 /\ KeyProcessed(M(w).idempotency_key) ]_vars

\* a delivery has been acked
C10_Witness ==
    \E id \in DOMAIN msgs : status[id] = "acked"


\* ---- C8 -------------------------------------------------------------------
\* one worker process; the loop keeps running, and the transport keeps
\* delivering every message that is ready again and again
LiveNext ==
    \/ Intake
    \/ Worker("w1")
    \/ Fault("w1")

LiveSpec ==
    /\ Init
    /\ [][LiveNext]_vars
    /\ WF_vars(Worker("w1"))
    /\ \A id \in 1..MaxMsgs : SF_vars(Deliver("w1", id))

\* the balance change of message id is committed
Applied(id) ==
    /\ id \in DOMAIN msgs
    /\ orig[msgs[id].idempotency_key] # <<>>
    /\ orig[msgs[id].idempotency_key][1] = msgs[id]

\* the ledger holds an entry for the key of message id and id is acked
Recorded(id) ==
    /\ id \in DOMAIN msgs
    /\ EntriesOf(msgs[id].idempotency_key) # {}
    /\ status[id] = "acked"

\* C8: once the balance change of a message is committed, then whatever
\* happens to its ledger write or its worker, with fair deliveries and a
\* ledger store that accepts writes again the ledger entry of its key is
\* eventually written and the message is eventually acked.
C8_CommittedEventuallyRecorded ==
    \A id \in 1..MaxMsgs : Applied(id) ~> Recorded(id)


\* ---- C11 ------------------------------------------------------------------
\* the workers that hold delivery id unanswered
Holders(id) == {w \in Workers : cur[w] = id}

\* worker w waits for a row lock another transaction holds
WaitsForLock(w) ==
    /\ pc[w] \in {"lock", "lockT"}
    /\ \E a \in AllAccountIds : lock[a] \notin {NoWorker, w}

\* C11: every delivery a worker takes ends in exactly one of ack, nack with
\* requeue, nack without requeue: a taken delivery is held by exactly one
\* worker, the worker lets go of it only by answering it (in flight -> acked,
\* ready or dead), an answered delivery gets no second answer, and a worker
\* that holds a delivery always has a next step towards the answer unless it
\* waits for a row lock.
C11_ExactlyOneResponse ==
    [][ /\ \A id \in DOMAIN msgs :
              /\ Cardinality(Holders(id)) <= 1
              /\ status[id] = "inflight" <=> Holders(id) # {}
              /\ (status[id] = "inflight" /\ status'[id] # "inflight") =>
                     \E w \in Holders(id) : cur'[w] = 0
              /\ status[id] \in {"acked", "dead"} => status'[id] = status[id]
        /\ \A w \in Workers :
              /\ (cur[w] # 0 /\ cur'[w] # cur[w]) =>
                     /\ cur'[w] = 0
                     /\ status[cur[w]] = "inflight"
                     /\ status'[cur[w]] \in {"acked", "ready", "dead"}
              /\ pc[w] # "idle" => (ENABLED Worker(w) \/ WaitsForLock(w)) ]_vars

\* the three answers have been given: one delivery acked, one nacked without
\* requeue (dead), after a failure put a delivery back in the queue
C11_Witness ==
    /\ \E i, j \in DOMAIN msgs : status[i] = "acked" /\ status[j] = "dead"
    /\ faults > 0

\* ---- C12 ------------------------------------------------------------------
\* the route the field-presence rule gives payload m
RouteByFields(m) ==
    IF m.account_id # "" THEN "apply"
    ELSE IF m.from_account_id # "" /\ m.to_account_id # "" THEN "applyT"
    ELSE "unknown"

\* C12: a delivery with a non-empty account_id goes to the single-account
\* apply; otherwise one with non-empty from_account_id and to_account_id goes
\* to the transfer apply; a payload of neither shape is nacked without requeue
\* and changes neither the balance store nor the ledger.
C12_ClassifyByFieldPresence ==
    [][ \A w \in Workers :
          /\ (cur[w] = 0 /\ cur'[w] # 0) =>
                /\ pc'[w] = RouteByFields(msgs[cur'[w]])
                /\ pc'[w] = "apply" => msgs[cur'[w]].account_id # ""
                /\ pc'[w] = "applyT" =>
                      /\ msgs[cur'[w]].account_id = ""
                      /\ msgs[cur'[w]].from_account_id # ""
                      /\ msgs[cur'[w]].to_account_id # ""
          /\ (cur[w] # 0 /\ RouteByFields(M(w)) = "unknown" /\ cur'[w] = 0
                /\ faults' = faults) =>
                /\ status'[cur[w]] = "dead"
                /\ UNCHANGED stores ]_vars

\* a transfer payload without destination and a transaction payload without
\* account have both been nacked without requeue
C12_Witness ==
    \E i, j \in DOMAIN msgs :
        /\ status[i] = "dead" /\ status[j] = "dead"
        /\ msgs[i].account_id = "" /\ msgs[i].from_account_id # ""
        /\ msgs[j].account_id = "" /\ msgs[j].from_account_id = ""

\* ---- C13 ------------------------------------------------------------------
\* the apply worker w runs is about to return a business error: the type is
\* not deposit or withdraw, the funds do not cover the amount, the account
\* of a transaction has no row
BusinessError(w) ==
    \/ pc[w] = "lock" /\ M(w).account_id \notin DOMAIN accounts
    \/ pc[w] = "update" /\ TxnError(M(w).type, rbal[w][1], M(w).amount) # "ok"
    \/ /\ pc[w] = "lockT"
       /\ \A a \in TransferRows(M(w)) : lock[a] = w
       /\ rbal[w][1] < M(w).amount

\* C13: the step in which an apply returns a business error changes no
\* account balance and no processed_messages row, and the attempt changed
\* none before: balances and rows change only in the step in which an apply
\* returns success.
C13_BusinessErrorChangesNothing ==
    [][ /\ \A w \in Workers :
              (BusinessError(w) /\ cur'[w] = 0 /\ faults' = faults) =>
                  /\ ~BalancesChanged
                  /\ processed_messages' = processed_messages
        /\ (BalancesChanged \/ processed_messages' # processed_messages) =>
              \E w \in Workers :
                  /\ ~BusinessError(w)
                  /\ hist[w] = <<>>
                  /\ hist'[w] = <<"apply_ok">> ]_vars

\* a withdrawal that exceeds the balance holds the row lock and is at the
\* funds test that fails
C13_Witness ==
    \E w \in Workers :
        /\ pc[w] = "update"
        /\ M(w).type = "withdraw"
        /\ lock[M(w).account_id] = w
        /\ TxnError(M(w).type, rbal[w][1], M(w).amount) = "insufficient_funds"

\* ---- C14 ------------------------------------------------------------------
\* transfer payload m names an account the balance store does not hold
NamesUnknownAccount(m) ==
    \/ m.from_account_id \notin DOMAIN accounts
    \/ m.to_account_id \notin DOMAIN accounts

\* C14: a transfer whose source or destination account is not in the balance
\* store is rejected: for a key that only such transfers carry there is no
\* processed_messages row (so no debit and no credit was committed) and no
\* ledger entry.
C14_UnknownAccountTransferRejected ==
    \A key \in AllKeys :
        ( /\ WithKey(key) # {}
          /\ \A id \in WithKey(key) :
                IsTransfer(msgs[id]) /\ NamesUnknownAccount(msgs[id]) )
        => (RowsOf(key) = {} /\ EntriesOf(key) = {})

\* ---- C15 ------------------------------------------------------------------
\* C15: no message on the queue carries an amount that is zero or negative
\* (the intake rejects such a request and publishes nothing for it).
C15_PublishedAmountPositive ==
    \A id \in DOMAIN msgs : msgs[id].amount > 0

\* ---- C16 ------------------------------------------------------------------
\* C16: no transfer message on the queue has its source equal to its
\* destination (the intake rejects such a request and publishes nothing).
C16_PublishedTransferDistinct ==
    \A id \in DOMAIN msgs :
        IsTransfer(msgs[id]) => msgs[id].from_account_id # msgs[id].to_account_id

\* ---- C17 ------------------------------------------------------------------
\* C17: the ledger write of an applied transfer appends exactly two entries
\* under the key of the transfer, a transfer_debit on the source and a
\* transfer_credit on the destination, and their signed amounts sum to 0.
C17_TransferEntriesSumToZero ==
    [][ \A w \in Workers :
          (pc[w] = "ledgerT" /\ pc'[w] = "ack") =>
             LET n == Len(entries)
                 debit == entries'[n + 1]
                 credit == entries'[n + 2]
             IN /\ Len(entries') = n + 2
                /\ SubSeq(entries', 1, n) = entries
                /\ debit.type = "transfer_debit"
                /\ credit.type = "transfer_credit"
                /\ debit.account_id = M(w).from_account_id
                /\ credit.account_id = M(w).to_account_id
                /\ debit.idempotency_key = M(w).idempotency_key
                /\ credit.idempotency_key = M(w).idempotency_key
                /\ SignedAmount(debit) + SignedAmount(credit) = 0 ]_vars

\* a transfer between two accounts has been applied, written to the ledger
\* and acked
C17_Witness ==
    \E id \in DOMAIN msgs :
        /\ IsTransfer(msgs[id])
        /\ status[id] = "acked"
        /\ msgs[id].from_account_id # msgs[id].to_account_id
        /\ \E i \in EntriesOf(msgs[id].idempotency_key) :
              entries[i].type = "transfer_debit"

\* ---- C18 ------------------------------------------------------------------
\* the keys a request can carry in its body field or in its header
KeyInputs == Keys \cup {""}

\* the intake alone, with every combination of body key and header key
KeyIntake ==
    \/ \E b \in InitialBalances : CreateAccount(b)
    \/ \E acc \in AccountRefs, bodyKey \in KeyInputs, headerKey \in KeyInputs :
          EnqueueTx(acc, "deposit", 1, bodyKey, headerKey)
    \/ \E to \in AccountRefs, bodyKey \in KeyInputs, headerKey \in KeyInputs :
          EnqueueTransfer(AccountIds[1], to, 1, bodyKey, headerKey)

KeySpec == Init /\ [][KeyIntake]_vars

\* C18: the key of a published message is the body field of its request if
\* that is non-empty, else the Idempotency-Key header if that is non-empty,
\* else a generated key no other message carries; it equals the key of the
\* accepted response.
C18_KeyResolution ==
    \A i \in DOMAIN msgs :
        LET q == accepted[i]
            key == msgs[i].idempotency_key
        IN /\ key = q.idempotency_key
           /\ q.body # "" => key = q.body
           /\ (q.body = "" /\ q.header # "") => key = q.header
           /\ (q.body = "" /\ q.header = "") =>
                 /\ key \notin KeyInputs
                 /\ \A j \in DOMAIN msgs \ {i} : msgs[j].idempotency_key # key

\* one request carried different keys in body and header, another carried
\* no key at all
C18_Witness ==
    /\ \E i \in DOMAIN accepted :
          /\ accepted[i].body # "" /\ accepted[i].header # ""
          /\ accepted[i].body # accepted[i].header
    /\ \E i \in DOMAIN accepted :
          accepted[i].body = "" /\ accepted[i].header = ""

\* ---- C19 ------------------------------------------------------------------
\* C19: a step of EnqueueTx or EnqueueTransfer changes no account balance, no
\* processed_messages row and no ledger entry; it appends one message to the
\* queue, answers 202 for it and touches nothing a worker holds; a request
\* that names an account of no row can always be accepted while the queue
\* takes messages.
C19_EnqueueOnlyPublishes ==
    [][ /\ msgs' # msgs =>
              /\ UNCHANGED stores
              /\ Len(msgs') = Len(msgs) + 1
              /\ SubSeq(msgs', 1, Len(msgs)) = msgs
              /\ status' = Append(status, "ready")
              /\ Len(accepted') = Len(msgs')
              /\ accepted'[Len(msgs')].idempotency_key = msgs'[Len(msgs')].idempotency_key
              /\ UNCHANGED <<pc, cur, lock, rbal>>
        /\ Len(msgs) < MaxMsgs =>
              /\ ENABLED EnqueueTx(Ghost, "deposit", 1, "k1", "")
              /\ ENABLED EnqueueTransfer(Ghost, Ghost, 1, "k1", "") ]_vars

\* a transaction on an account of no row and a transfer to one have both
\* been accepted and published
C19_Witness ==
    \E i, j \in DOMAIN msgs :
        /\ msgs[i].account_id = Ghost
        /\ msgs[j].to_account_id = Ghost
        /\ Len(accepted) = Len(msgs)

\* ---- C20 ------------------------------------------------------------------
\* the rows the statement worker w is running wants locked
RowsWanted(w) ==
    IF pc[w] = "lock" THEN {M(w).account_id} \cap DOMAIN accounts
    ELSE IF pc[w] = "lockT" THEN TransferRows(M(w))
    ELSE {}

\* worker w waits for a row lock the transaction of worker v holds
WaitsFor(w, v) ==
    /\ w # v
    /\ \E a \in RowsWanted(w) : lock[a] = v

\* C20: in no reachable state do workers wait on each other's row locks in a
\* cycle, that is, there is no non-empty set of workers each of which waits
\* for a lock another worker of the set holds (from such a state no transfer
\* of the set commits or fails by itself).
C20_NoLockWaitCycle ==
    ~ \E S \in SUBSET Workers :
          /\ S # {}
          /\ \A w \in S : \E v \in S : WaitsFor(w, v)

\* ---- C21 ------------------------------------------------------------------
\* the place of account id a in the global order of the ids
IdRank(a) == CHOOSE i \in DOMAIN AccountIds : AccountIds[i] = a

\* C21: ApplyTransfer takes its row locks in the global order of the ids,
\* smaller id first, whichever account is the source: when it locks a row,
\* every row of the transfer with a smaller id is already locked by it.
C21_LocksInIdOrder ==
    [][ \A w \in Workers : \A a \in AllAccountIds :
          (pc[w] = "lockT" /\ lock[a] # w /\ lock'[a] = w) =>
             \A b \in TransferRows(M(w)) :
                 IdRank(b) < IdRank(a) => lock[b] = w ]_vars

\* ---- C22 ------------------------------------------------------------------
\* the change a single-account operation of kind typ makes to the balance
Delta(typ, amount) == IF typ = "withdraw" THEN -amount ELSE amount

\* C22: operations on one account are serialized by the row lock with no
\* lost update: the balance a single-account apply works from is the
\* committed balance of the row it has locked, also when another worker
\* committed on that account just before; its sufficiency test uses that
\* balance, and its commit moves the committed balance by exactly its amount
\* and returns the committed result.
C22_NoLostUpdate ==
    [][ \A w \in Workers :
          /\ pc[w] = "update" =>
                /\ lock[M(w).account_id] = w
                /\ rbal[w][1] = accounts[M(w).account_id]
          /\ (pc[w] = "update" /\ pc'[w] = "ledger") =>
                LET a == M(w).account_id IN
                /\ accounts'[a] = accounts[a] + Delta(M(w).type, M(w).amount)
                /\ rbal'[w][1] = accounts'[a]
                /\ M(w).type = "withdraw" => accounts[a] >= M(w).amount ]_vars

\* two workers have committed operations with distinct keys on one account
\* and the balance reflects both amounts
C22_Witness ==
    \E w, v \in Workers :
        /\ w # v
        /\ pc[w] = "ledger" /\ pc[v] = "ledger"
        /\ M(w).account_id = M(v).account_id
        /\ M(w).idempotency_key # M(v).idempotency_key
        /\ orig[M(w).idempotency_key] = <<M(w), rbal[w]>>
        /\ orig[M(v).idempotency_key] = <<M(v), rbal[v]>>
        /\ rbal[w][1] # rbal[v][1]
        /\ accounts[M(w).account_id] =
              initial[M(w).account_id] + Delta(M(w).type, M(w).amount)
                                       + Delta(M(v).type, M(v).amount)

\* ---- C23 ------------------------------------------------------------------
\* the place of the commit of key in the order of the commits
CommitRank(key) == CHOOSE i \in RowsOf(key) : TRUE

\* ledger entry i is the first one written for its key
FirstEntry(i) ==
    \A j \in EntriesOf(entries[i].idempotency_key) : i <= j

\* C23: for any one account the ledger entries are appended in the order in
\* which the balance-store transactions of their keys committed (looking at
\* the first entry of each key).
C23_LedgerInCommitOrder ==
    \A i, j \in DOMAIN entries :
        ( /\ i < j
          /\ entries[i].account_id = entries[j].account_id
          /\ FirstEntry(i) /\ FirstEntry(j)
          /\ entries[i].idempotency_key # entries[j].idempotency_key )
        => CommitRank(entries[i].idempotency_key)
              < CommitRank(entries[j].idempotency_key)

\* ---- C24 ------------------------------------------------------------------
\* the accounts whose committed balance the step changes
ChangedAccounts == {a \in DOMAIN accounts : accounts'[a] # accounts[a]}

\* the step commits the first processed_messages row of key
RowCommitted(key) == RowsOf(key) = {} /\ RowsOf(key)' # {}

C25_FailedApplyWritesNoLedger ==
    [][ /\ \A w \in Workers :
              (InTx(w) /\ cur'[w] = 0) => entries' = entries
        /\ entries' # entries =>
              \E w \in Workers :
                  /\ pc[w] \in {"ledger", "ledgerT"} /\ pc'[w] = "ack"
                  /\ hist[w] = <<"apply_ok">>
                  /\ SubSeq(entries', 1, Len(entries)) = entries
                  /\ \A i \in DOMAIN entries' \ DOMAIN entries :
                        entries'[i].idempotency_key = M(w).idempotency_key
        /\ \A key \in AllKeys : RowsOf(key) = {} => EntriesOf(key) = {} ]_vars

\* a transfer whose source does not hold the amount has both rows locked and
\* is at the funds test that fails, while the ledger holds entries of another
\* key
C25_Witness ==
    \E w \in Workers :
        /\ pc[w] = "lockT"
        /\ TransferRows(M(w)) # {}
        /\ \A a \in TransferRows(M(w)) : lock[a] = w
        /\ rbal[w][1] < M(w).amount
        /\ RowsOf(M(w).idempotency_key) = {}
        /\ entries # <<>>

\* ---- C26 ------------------------------------------------------------------
\* the ledger entries of account a
EntriesOfAccount(a) == {i \in DOMAIN entries : entries[i].account_id = a}

\* sum of the amounts as stored in the ledger entries of the set S
StoredSum(S) == SumOver([i \in DOMAIN entries |-> entries[i].amount], S)

\* C26: after a deposit of 1 to an account created with balance 0 and a
\* withdrawal of 1 with another key, both processed and acked with no failure
\* in between, the balance is 0 and the ledger of the account holds exactly
\* two entries whose stored amounts sum to 0.
C26_DepositWithdrawSumsToZero ==
    \A a \in DOMAIN accounts :
        ( /\ initial[a] = 0
          /\ faults = 0
          /\ Len(msgs) = 2
          /\ msgs[1] = TxPayload(a, "deposit", 1, "k1")
          /\ msgs[2] = TxPayload(a, "withdraw", 1, "k2")
          /\ status[1] = "acked" /\ status[2] = "acked" )
        => /\ accounts[a] = 0
           /\ Cardinality(EntriesOfAccount(a)) = 2
           /\ StoredSum(EntriesOfAccount(a)) = 0

\* ---- C27 ------------------------------------------------------------------
\* the state a transfer m leaves once applied: balances moved by its amount,
\* one row (transfer, source, amount), one debit and one credit entry with
\* the balances after
TransferApplied(m) ==
    LET key == m.idempotency_key
        from == m.from_account_id
        to == m.to_account_id
    IN /\ accounts[from] = initial[from] - m.amount
       /\ accounts[to] = initial[to] + m.amount
       /\ \E r \in RowsOf(key) :
             /\ RowsOf(key) = {r}
             /\ processed_messages[r] = ProcessedRow(key, from, "transfer", m.amount)
       /\ \E d, c \in EntriesOf(key) :
             /\ EntriesOf(key) = {d, c}
             /\ entries[d] = LedgerDoc(from, "transfer_debit", -m.amount,
                                       accounts[from], key)
             /\ entries[c] = LedgerDoc(to, "transfer_credit", m.amount,
                                       accounts[to], key)

\* C27: when the only messages are submissions of one transfer of m > 0
\* between two distinct existing accounts whose source holds at least m, and
\* all are acked, the source is down by m, the destination up by m, there is
\* one processed_messages row (transfer, source, m) and one transfer_debit
\* and one transfer_credit entry under the key; a second submission of the
\* key changes neither balances nor ledger.
C27_TransferEffect ==
    \A id \in DOMAIN msgs :
        LET m == msgs[id] IN
        ( /\ IsTransfer(m)
          /\ m.from_account_id \in DOMAIN accounts
          /\ m.to_account_id \in DOMAIN accounts
          /\ m.from_account_id # m.to_account_id
          /\ m.amount > 0
          /\ initial[m.from_account_id] >= m.amount
          /\ \A id2 \in DOMAIN msgs : msgs[id2] = m /\ status[id2] = "acked" )
        => TransferApplied(m)

\* ---- C28 ------------------------------------------------------------------
\* one worker process that is sent the shutdown signal, no injected failure
ShutdownNext ==
    \/ Intake
    \/ Worker("w1")
    \/ Signal("w1")
    \/ Exit("w1")

ShutdownSpec == Init /\ [][ShutdownNext]_vars

\* C28: after the shutdown signal the worker takes no new delivery, and the
\* process ends (releasing the transport and store connections) only when
\* it holds no delivery: each delivery it was processing has been acked or
\* nacked by it.
C28_GracefulShutdown ==
    [][ \A w \in Workers :
          /\ proc[w] = "stopping" => ~(cur[w] = 0 /\ cur'[w] # 0)
          /\ (proc[w] = "stopping" /\ proc'[w] = "exited") => cur[w] = 0 ]_vars

\* ---- C29 ------------------------------------------------------------------
\* the initial_balance values a createAccount request can carry
AnyInitialBalances == InitialBalances \cup {-1}

\* the intake with createAccount requests of any initial balance
AccountIntake ==
    \/ \E b \in AnyInitialBalances : CreateAccount(b)
    \/ \E r \in TxRequests :
          EnqueueTx(r.account_id, r.type, r.amount, r.idempotency_key, r.header)

AccountSpec == Init /\ [][AccountIntake]_vars

\* C29: every account that exists was created with an initial balance >= 0
\* (CreateAccount rejects a negative initial_balance and creates nothing).
C29_InitialBalanceNonNegative ==
    \A a \in DOMAIN accounts : initial[a] >= 0

\* ---- C30 ------------------------------------------------------------------
\* the amount the entry of kind typ carries for a message of amount amt when
\* the sign encodes the direction
DirectedAmount(typ, amt) ==
    IF typ \in {"withdraw", "transfer_debit"} THEN -amt ELSE amt

\* C30: the amount a ledger write stores is signed by direction: -amount in
\* the entry of a withdrawal and in a transfer_debit, +amount in the entry
\* of a deposit and in a transfer_credit.
C30_AmountSignedByDirection ==
    [][ \A w \in Workers :
          (pc[w] \in {"ledger", "ledgerT"} /\ pc'[w] = "ack") =>
             \A i \in DOMAIN entries' \ DOMAIN entries :
                 entries'[i].amount =
                     DirectedAmount(entries'[i].type, M(w).amount) ]_vars

\* ---- C31 ------------------------------------------------------------------
\* worker w calls the apply with a key that has a processed_messages row
CallsWithProcessedKey(w) ==
    /\ cur[w] # 0
    /\ RowsOf(M(w).idempotency_key) # {}

\* C31: ApplyTransaction or ApplyTransfer called with a key that has a
\* processed_messages row changes no balance and no row, takes no row lock
\* and returns the balance(s) it reads from the accounts as committed at
\* that moment, whatever account, kind or amount the call carries.
C31_ReplayChangesNothing ==
    [][ \A w \in Workers :
          /\ (CallsWithProcessedKey(w) /\ pc[w] = "apply"
                /\ ParseUUID(M(w).account_id) /\ pc'[w] # pc[w]) =>
                /\ UNCHANGED <<accounts, processed_messages, lock>>
                /\ pc'[w] \in {"ledger", "idle"}
                /\ pc'[w] = "ledger" =>
                      rbal'[w][1] = accounts[M(w).account_id]
          /\ (CallsWithProcessedKey(w) /\ pc[w] = "applyT"
                /\ ParseUUID(M(w).from_account_id)
                /\ ParseUUID(M(w).to_account_id) /\ pc'[w] # pc[w]) =>
                /\ UNCHANGED <<accounts, processed_messages, lock>>
                /\ pc'[w] \in {"replayTo", "idle"}
                /\ pc'[w] = "replayTo" =>
                      rbal'[w][1] = accounts[M(w).from_account_id]
          /\ (pc[w] = "replayTo" /\ pc'[w] # pc[w]) =>
                /\ UNCHANGED <<accounts, processed_messages, lock>>
                /\ pc'[w] \in {"ledgerT", "idle"}
                /\ pc'[w] = "ledgerT" =>
                      rbal'[w] = <<rbal[w][1], accounts[M(w).to_account_id]>> ]_vars

\* an apply has returned on the replay path for a call whose payload differs
\* from the payload that was applied under the key
C31_Witness ==
    \E w \in Workers :
        /\ pc[w] \in {"ledger", "ledgerT"}
        /\ orig[M(w).idempotency_key] # <<>>
        /\ orig[M(w).idempotency_key][1] # M(w)

\* ---- C33 ------------------------------------------------------------------
\* C33: a withdrawal succeeds exactly when the locked balance is >= its
\* amount (and its key was not committed meanwhile): withdrawing the whole
\* balance succeeds and leaves 0, one more fails with insufficient_funds; a
\* transfer applies the same test to the balance of its source; a kind other
\* than deposit or withdraw fails with invalid_type.
C33_SufficiencyTest ==
    [][ \A w \in Workers :
          /\ (pc[w] = "update" /\ pc'[w] # pc[w] /\ faults' = faults) =>
                LET m == M(w)
                    balance == rbal[w][1]
                    fresh == RowsOf(m.idempotency_key) = {}
                IN /\ m.type = "withdraw" =>
                         /\ pc'[w] = "ledger" <=> (balance >= m.amount /\ fresh)
                         /\ (pc'[w] = "ledger" /\ balance = m.amount) =>
                               accounts'[m.account_id] = 0
                         /\ balance < m.amount =>
                               TxnError(m.type, balance, m.amount) = "insufficient_funds"
                   /\ m.type \notin {"deposit", "withdraw"} =>
                         /\ pc'[w] # "ledger"
                         /\ TxnError(m.type, balance, m.amount) = "invalid_type"
          /\ (pc[w] = "lockT" /\ pc'[w] # pc[w] /\ faults' = faults) =>
                (pc'[w] = "ledgerT" <=>
                    (rbal[w][1] >= M(w).amount
                        /\ RowsOf(M(w).idempotency_key) = {})) ]_vars

\* a withdrawal of the whole balance has been committed and left 0
C33_Witness ==
    \E w \in Workers :
        /\ pc[w] = "ledger"
        /\ M(w).type = "withdraw" /\ M(w).amount = 1
        /\ orig[M(w).idempotency_key] = <<M(w), <<0, 0>>>>
        /\ accounts[M(w).account_id] = 0

\* ---- C35 ------------------------------------------------------------------
\* the sum of the balances of all account rows
TotalBalance(rows) == SumOver(rows, DOMAIN rows)

\* C35: the commit of a transfer leaves the sum of all balances unchanged,
\* also when source and destination are the same account and when the
\* destination row does not exist.
C35_TransferConservesMoney ==
    [][ \A w \in Workers :
          (pc[w] = "lockT" /\ pc'[w] = "ledgerT") =>
              TotalBalance(accounts') = TotalBalance(accounts) ]_vars

\* ---- C36 ------------------------------------------------------------------
\* the processed_messages row r records the operation of ledger entry e
RowMatchesEntry(r, e) ==
    CASE e.type = "transfer_debit" ->
             /\ r.type = "transfer"
             /\ r.account_id = e.account_id
             /\ r.amount = -e.amount
      [] e.type = "transfer_credit" ->
             /\ r.type = "transfer"
             /\ r.amount = e.amount
      [] OTHER ->
             /\ r.type = e.type
             /\ r.account_id = e.account_id
             /\ r.amount = e.amount

\* C36: every ledger entry with key k has a processed_messages row for k
\* with the same kind, amount and account (source account for a transfer).
C36_EntryHasMatchingRow ==
    \A i \in DOMAIN entries :
        \E r \in RowsOf(entries[i].idempotency_key) :
            RowMatchesEntry(processed_messages[r], entries[i])

\* ---- C37 ------------------------------------------------------------------
\* C37: every published message is eventually acked or dead-lettered.
C37_EveryMessageTerminates ==
    \A id \in 1..MaxMsgs :
        (id \in DOMAIN msgs) ~>
            (id \in DOMAIN msgs /\ status[id] \in {"acked", "dead"})

\* ---- C34 ------------------------------------------------------------------
\* one consumer whose context may be cancelled at any moment; the loop keeps
\* running and the select, which picks among its ready cases at random,
\* does not pass over the cancellation forever
CancelNext ==
    \/ Intake
    \/ Worker("w1")
    \/ Cancel("w1")
    \/ CtxFail("w1")
    \/ Return("w1")

CancelSpec ==
    /\ Init /\ [][CancelNext]_vars
    /\ WF_vars(Worker("w1") \/ CtxFail("w1"))
    /\ SF_vars(Return("w1"))

\* C34: Consumer.Start returns only after its context is cancelled, and
\* then it does return; the delivery in hand at the cancellation has been
\* acked or nacked, and no delivery is held, when it returns.
C34_CancelledConsumerReturns ==
    /\ [][ \A w \in Workers :
             (pc[w] # "returned" /\ pc'[w] = "returned") =>
                 /\ ctx[w] = "cancelled"
                 /\ cur[w] = 0
                 /\ cancelledAt[w] # 0 => status[cancelledAt[w]] # "inflight" ]_vars
    /\ \A w \in Workers : (ctx[w] = "cancelled") ~> (pc[w] = "returned")

\* the consumer has returned, and the delivery it was processing when the
\* context was cancelled has been acked
C34_Witness ==
    /\ pc["w1"] = "returned"
    /\ cancelledAt["w1"] # 0
    /\ status[cancelledAt["w1"]] = "acked"

\* ---- C38 ------------------------------------------------------------------
\* one consumer whose delivery channel the transport may close
CloseNext ==
    \/ Intake
    \/ Worker("w1")
    \/ CloseChannel("w1")
    \/ ReceiveZero("w1")
    \/ NackZero("w1")

CloseSpec == Init /\ [][CloseNext]_vars

\* C38: once the delivery channel is closed the consumer processes nothing
\* more, and whatever it processes is a delivery the transport sent.
C38_ClosedChannelStopsConsumer ==
    \A w \in Workers :
        /\ deliveries[w] = "closed" => pc[w] \in {"idle", "returned"}
        /\ pc[w] \notin {"idle", "returned"} => cur[w] # 0

\* ---- C32 ------------------------------------------------------------------
\* payloads that carry the fields of both message types
AmbiguousPayloads ==
    { [account_id |-> "a1", type |-> "deposit", amount |-> 1,
       idempotency_key |-> key, from_account_id |-> "a1", to_account_id |-> to] :
         key \in Keys, to \in {"a2", ""} }

\* another producer puts a payload of its own making in the queue the
\* consumer reads; no HTTP response is involved
PublishForeign(payload) ==
    /\ Publish(payload)
    /\ UNCHANGED accepted

ForeignNext ==
    \/ Intake
    \/ \E payload \in AmbiguousPayloads : PublishForeign(payload)
    \/ Worker("w1")

ForeignSpec == Init /\ [][ForeignNext]_vars

Ambiguous(m) == m.account_id # "" /\ m.from_account_id # ""

\* C32: a delivery whose payload carries both account_id and
\* from_account_id is routed to the unknown-payload branch (nack without
\* requeue), neither to Apply nor to ApplyTransfer.
C32_AmbiguousPayloadRejected ==
    [][ \A w \in Workers :
          (cur[w] = 0 /\ cur'[w] # 0 /\ Ambiguous(msgs[cur'[w]])) =>
              pc'[w] = "unknown" ]_vars

\* ---- C39 ------------------------------------------------------------------
\* one worker, and accounts that may be created with the largest balance
OverflowNext ==
    \/ CreateAccount(MaxInt64)
    \/ Intake
    \/ Worker("w1")

OverflowSpec == Init /\ [][OverflowNext]_vars

\* C39: the commit of a deposit of a positive amount never leaves the
\* account with a smaller balance, and the credit of a transfer of a
\* positive amount to another account never leaves the destination with a
\* smaller balance: an addition that passes the upper limit is not applied.
C39_NoWrapAround ==
    [][ \A w \in Workers :
          /\ (pc[w] = "update" /\ pc'[w] = "ledger"
                /\ M(w).type = "deposit" /\ M(w).amount > 0) =>
                accounts'[M(w).account_id] >= accounts[M(w).account_id]
          /\ (pc[w] = "lockT" /\ pc'[w] = "ledgerT" /\ M(w).amount > 0
                /\ M(w).to_account_id \in DOMAIN accounts
                /\ M(w).to_account_id # M(w).from_account_id) =>
                accounts'[M(w).to_account_id] >= accounts[M(w).to_account_id] ]_vars

====
